---- MODULE Spec2Model ----
(***************************************************************************)
(* Transaction lifecycle of the Vectra VTU backend: the status guard of    *)
(* models.py, change_transaction_status, purchase intake (airtime, data),  *)
(* webhook ingestion, requery and refund, over one stored transaction row  *)
(* and the per-request ORM copies of it.                                   *)
(*                                                                         *)
(* ORM semantics the handlers run on (SQLAlchemy, database.py:35-41: a     *)
(* sessionmaker with the default expire_on_commit):                        *)
(*  - a query or refresh loads every column of the row into the request's  *)
(*    object; db.commit() flushes the pending column writes as one UPDATE  *)
(*    of exactly the columns whose value differs from the loaded one (all  *)
(*    assigned columns when nothing is loaded) and then EXPIRES the        *)
(*    object: no column value is loaded any more;                          *)
(*  - the 'set' listener of models.py:142 is registered without            *)
(*    active_history, so the old value it is given is the value loaded in  *)
(*    the object, and NO_VALUE when the object is expired;                 *)
(*  - an UPDATE sets updated_at to the statement's time (models.py:86);    *)
(*  - there is no row lock and no version column: an UPDATE overwrites     *)
(*    whatever another request committed since this request's load.        *)
(***************************************************************************)
EXTENDS Integers, Sequences, FiniteSets, TLC

VARIABLES
    store,       \* the transactions table: request_id -> row
    now,         \* the clock, in minutes
    procs,       \* one record per request worker: position, ORM object, input
    reply,       \* the response the step just taken issued, if it issued one
    requests,    \* number of requests the workers have taken so far
    applied,     \* history: delivery ids whose effects have been stored
    lastIngest,  \* history: the webhook acknowledged last, while nothing
                 \* but the clock has moved since
    unit,        \* a direct call of change_transaction_status
    pool,        \* how the server runs its handlers: "threaded", "single",
                 \* "pair" (two at a time) or "live" (left running)
    engine,      \* the database of DATABASE_URL: "sqlite" or "postgresql"
    inserted     \* history: rows with the request id that INSERTs have stored

vars ==
    <<store, now, procs, reply, requests, applied, lastIngest, unit, pool, engine,
      inserted>>

----------------------------------------------------------------------------
(* Bounds of the model *)

\* last clock value (minutes) the model lets time reach
MaxTime == 20
\* minutes one Tick advances the clock
TickMinutes == 10
\* requests the workers take in one behaviour
MaxRequests == 3

----------------------------------------------------------------------------
(* Values *)

\* a NULL column and a column holding v
NULL == <<>>
Some(v) == <<v>>
\* Python truth of data.get('status'): None and '' are false
Truthy(v) == v # NULL /\ v # Some("")
\* dict.get(key, default)
Get(v, default) == IF v = NULL THEN default ELSE v

\* models.py:33-39; PENDING is an alias NAME of the value 'INITIATED'
INITIATED == "INITIATED"
PROCESSING == "PROCESSING"
SUCCESS == "SUCCESS"
FAILED == "FAILED"
REFUNDED == "REFUNDED"
TransactionStatus == {INITIATED, PROCESSING, SUCCESS, FAILED, REFUNDED}

\* sqlalchemy.orm.attributes.NO_VALUE (models.py:25): the attribute holds
\* no loaded value
NO_VALUE == "NO_VALUE"

\* models.py:133-139
ALLOWED_STATUS_TRANSITIONS ==
    [s \in TransactionStatus |->
        CASE s = INITIATED -> {PROCESSING}
          [] s = PROCESSING -> {SUCCESS, FAILED}
          [] s = SUCCESS -> {REFUNDED}
          [] s = FAILED -> {}
          [] s = REFUNDED -> {}]

\* transactions.py:14
REQUERY_TIMEOUT_MINUTES == 10

\* the one request id the model follows
RID == "VECTRA_1"

\* vendor status strings the model feeds in (iacafe.py:397-403 plus one
\* string the table does not know and the empty string)
VendorStatuses ==
    {"processing-api", "completed-api", "refunded", "unprocessable", "422",
     "queued", ""}

\* The mutant of normalize_status: the table has no entry for '422'.
normalize_status_no422(iacafe_status) ==
    CASE iacafe_status = "processing-api" -> "PENDING"
      [] iacafe_status = "completed-api" -> "SUCCESS"
      [] iacafe_status = "refunded" -> "REFUNDED"
      [] iacafe_status = "unprocessable" -> "FAILED"
      [] OTHER -> "PENDING"

\* iacafe.py:387-407: dict.get with the default 'PENDING'
normalize_status(iacafe_status) ==
    CASE iacafe_status = "processing-api" -> "PENDING"
      [] iacafe_status = "completed-api" -> "SUCCESS"
      [] iacafe_status = "refunded" -> "REFUNDED"
      [] iacafe_status = "unprocessable" -> "FAILED"
      [] iacafe_status = "422" -> "FAILED"
      [] OTHER -> "PENDING"

----------------------------------------------------------------------------
(* The status guard *)

Ok == [ok |-> TRUE, err |-> "", old |-> "", new |-> ""]
Err(kind, old, new) == [ok |-> FALSE, err |-> kind, old |-> old, new |-> new]

\* The mutant of the guard: every change between two known statuses passes.
validate_status_transition_lax(oldvalue, new) ==
    IF new \notin TransactionStatus THEN Err("InvalidStatusValue", "", new)
    ELSE IF oldvalue = NO_VALUE
    THEN IF new # INITIATED THEN Err("InitialMustBeInitiated", "", "") ELSE Ok
    ELSE Ok

\* models.py:142-179.  oldvalue is a status, or NO_VALUE when the object
\* holds no loaded status (new object, or expired by a commit).  The
\* ValueError texts: "Invalid status value: new", "Initial status must be
\* 'INITIATED'" (names no pair), "Invalid status transition: old -> new".
validate_status_transition(oldvalue, new) ==
    IF new \notin TransactionStatus THEN Err("InvalidStatusValue", "", new)
    ELSE IF oldvalue = NO_VALUE
    THEN IF new # INITIATED THEN Err("InitialMustBeInitiated", "", "") ELSE Ok
    ELSE IF oldvalue = new THEN Ok
    ELSE IF new \notin ALLOWED_STATUS_TRANSITIONS[oldvalue]
    THEN Err("InvalidTransition", oldvalue, new)
    ELSE Ok

----------------------------------------------------------------------------
(* The table row and the ORM object of one request *)

\* The columns the handlers write (models.py:76-86).  updated_at is NOT NULL
\* with a server default, so the created_at fallback of transactions.py:83
\* is never taken and created_at is left out.
NewRow(t) ==
    [status |-> INITIATED,
     iacafe_status |-> NULL,
     iacafe_reference |-> NULL,
     provider_response |-> NULL,
     error_message |-> NULL,
     webhook_payload |-> NULL,
     webhook_received_at |-> NULL,
     webhook_delivery_id |-> NULL,
     updated_at |-> t]

Columns ==
    {"status", "iacafe_status", "iacafe_reference", "provider_response",
     "error_message", "webhook_payload", "webhook_received_at",
     "webhook_delivery_id"}

NoPending == [c \in {} |-> NULL]

\* an object with no loaded column: fresh from a commit (expire_on_commit)
Expired == [loaded |-> FALSE, vals |-> NewRow(0), pend |-> NoPending]
\* an object as a query or db.refresh leaves it
Loaded(rowv) == [loaded |-> TRUE, vals |-> rowv, pend |-> NoPending]

\* the value the attribute dict of the object holds for status: what the
\* 'set' listener receives as oldvalue (no active_history)
StatusInDict(obj) ==
    IF "status" \in DOMAIN obj.pend THEN obj.pend["status"]
    ELSE IF obj.loaded THEN obj.vals.status
    ELSE NO_VALUE

\* transaction.<c> = v
SetAttr(obj, c, v) ==
    [obj EXCEPT !.pend = [k \in (DOMAIN @) \cup {c} |-> IF k = c THEN v ELSE @[k]]]

\* the columns the flush puts in its UPDATE: assigned, and different from
\* the loaded value (or nothing loaded to compare with)
Written(obj) ==
    {c \in DOMAIN obj.pend : ~obj.loaded \/ obj.vals[c] # obj.pend[c]}

\* The mutant of Flush: the UPDATE carries every column of the object, the
\* loaded values of the unassigned ones included.
Flush_allcolumns(rowv, obj, t) ==
    LET V(c) == IF c \in DOMAIN obj.pend THEN obj.pend[c]
                ELSE IF obj.loaded THEN obj.vals[c] ELSE rowv[c]
    IN  IF DOMAIN obj.pend = {} THEN rowv
        ELSE [status |-> V("status"),
              iacafe_status |-> V("iacafe_status"),
              iacafe_reference |-> V("iacafe_reference"),
              provider_response |-> V("provider_response"),
              error_message |-> V("error_message"),
              webhook_payload |-> V("webhook_payload"),
              webhook_received_at |-> V("webhook_received_at"),
              webhook_delivery_id |-> V("webhook_delivery_id"),
              updated_at |-> t]

\* db.commit() of the object against the stored row at time t: the UPDATE
\* of the written columns, with onupdate=func.now() on updated_at
\* (models.py:86); no UPDATE when nothing is written
Flush(rowv, obj, t) ==
    LET w == Written(obj)
        V(c) == IF c \in w THEN obj.pend[c] ELSE rowv[c]
    IN  IF w = {} THEN rowv
        ELSE [status |-> V("status"),
              iacafe_status |-> V("iacafe_status"),
              iacafe_reference |-> V("iacafe_reference"),
              provider_response |-> V("provider_response"),
              error_message |-> V("error_message"),
              webhook_payload |-> V("webhook_payload"),
              webhook_received_at |-> V("webhook_received_at"),
              webhook_delivery_id |-> V("webhook_delivery_id"),
              updated_at |-> t]

\* transaction_service.py:5-23, up to db.commit().  new_status is a
\* TransactionStatus value string or any other string.  On a rejection the
\* ValueError leaves the object and the row as they were; on success the
\* commit writes the status with whatever else is pending on the object and
\* expires the object.  db.refresh (line 24) is the caller's next step: it
\* loads the row as the table holds it then.
change_transaction_status(obj, rowv, new_status, t) ==
    IF new_status \notin TransactionStatus
    THEN [res |-> Err("UnknownStatus", "", new_status), obj |-> obj, row |-> rowv]
    ELSE LET g == validate_status_transition(StatusInDict(obj), new_status)
         IN  IF ~g.ok THEN [res |-> g, obj |-> obj, row |-> rowv]
             ELSE LET r1 == Flush(rowv, SetAttr(obj, "status", new_status), t)
                  IN  [res |-> Ok, obj |-> Expired, row |-> r1]

----------------------------------------------------------------------------
(* Requests, responses and the vendor *)

\* The requests in hand.  p1, p2 and w1, w2 are requests to the routes the
\* application serves (app.py:53-55: airtime, data, webhooks).  q and f are
\* a requery and a refund: the application has no URL rule for them, as
\* transactions_bp (transactions.py:12) is registered nowhere, and answers
\* them 404 (RouteNotFound); the view functions themselves run where the
\* blueprint is mounted (NextWorker, NextReconcile, NextLive).
IntakeProcs == {"p1", "p2"}
WebhookProcs == {"w1", "w2"}
RequeryProcs == {"q"}
RefundProcs == {"f"}
Procs == IntakeProcs \cup WebhookProcs \cup RequeryProcs \cup RefundProcs

\* X-VTU-Delivery values
DeliveryIds == {"dA", "dB"}
\* data.status values of the requery responses
DeliveredStatuses == {"completed-api", "unprocessable", "queued"}
\* The webhook bodies of the model, as data.status and data.reference: one
\* per normalized status, and one without a status
Bodies ==
    {[vs |-> Some("completed-api"), ref |-> Some("ref1")],
     [vs |-> Some("unprocessable"), ref |-> NULL],
     [vs |-> Some("422"), ref |-> NULL],
     [vs |-> Some("refunded"), ref |-> NULL],
     [vs |-> Some("queued"), ref |-> NULL],
     [vs |-> NULL, ref |-> NULL]}

\* How a purchase request is formed (airtime.py:48-75, data.py:108-143)
IntakeForms == {"ok", "missing_field", "bad_network", "bad_amount"}

\* How a webhook request is formed (webhooks.py:84-150).  A request that is
\* not "ok" is answered before any row is read: 400 for a missing header,
\* an unparsable or incomplete payload and a missing request_id, 401 for a
\* signature that does not verify, 200 for an event that is not supported
\* and for a request_id the table does not hold, 500 for a payload that is
\* JSON but no object (an exception no handler catches, answered by the
\* 500 handler of app.py:102-108) and for data that is no object (caught
\* at webhooks.py:209-211).
WebhookForms ==
    {"ok", "missing_header", "bad_signature", "bad_payload",
     "unsupported_event", "no_request_id", "unknown_request",
     "unhandled_error", "server_error"}

\* What a vendor call comes to (iacafe.py:102-215): a response body with
\* success true or false, or an exception: an HTTP error status, a connect
\* timeout, a transport/certificate error, an unparsable body
Transient == {"timeout", "transport_error", "malformed"}
Raises == {"http_error"} \cup Transient
VendorOutcomes ==
    [kind : {"ok"}, status : {Some(x) : x \in VendorStatuses} \cup {NULL}]
    \cup [kind : {"rejected"} \cup Raises, status : {NULL}]

\* What _make_request hands its caller: a parsed body with its success flag,
\* or an exception of a class with the fixed part of its message (the rest
\* of the message is text of the peer or of the HTTP library).
Returned(success) == [raised |-> FALSE, class |-> "dict", text |-> "", success |-> success]
Raised(class, text) == [raised |-> TRUE, class |-> class, text |-> text, success |-> FALSE]

\* iacafe.py:102-215, the results a call of each kind can have.  An HTTP
\* error status raises a plain Exception (153) that no except clause of the
\* function catches.  ConnectTimeout is rewrapped at 166, any other
\* RequestException at 215, a certificate failure whose unverified retry
\* fails at 190, a proxy failure whose retry fails at 208.  response.json()
\* on a malformed body raises a JSONDecodeError that is a RequestException
\* (and so rewrapped at 215) or a ValueError (and so passed on), by the
\* version of the HTTP library installed.
make_request(kind) ==
    CASE kind = "ok" -> {Returned(TRUE)}
      [] kind = "rejected" -> {Returned(FALSE)}
      [] kind = "http_error" ->
            {Raised("Exception", "IA Cafe API request failed: ")}
      [] kind = "timeout" ->
            {Raised("Exception", "Connection timeout to IA Cafe API: ")}
      [] kind = "transport_error" ->
            {Raised("Exception", "IA Cafe API request failed: "),
             Raised("Exception", "IA Cafe API request failed even without SSL: ")}
      [] kind = "malformed" ->
            {Raised("Exception", "IA Cafe API request failed: "),
             Raised("JSONDecodeError", "")}

\* iacafe.py:127-208, how many times one call of _make_request can send the
\* request (requests.get / requests.post) for each kind of end.  The first
\* send is at 133-139.  An SSLError sends it again without certificate
\* verification (175-180) and a ProxyError again without the proxy
\* (196-201); the second send has no raise_for_status, so it ends with a
\* body, or with the exception of 190 / 208.  An HTTP error status (153) and
\* a ConnectTimeout (166) end the call after the first send.
requests_sent(kind) ==
    CASE kind \in {"http_error", "timeout"} -> {1}
      [] kind \in {"ok", "rejected", "transport_error", "malformed"} -> {1, 2}

\* the outcomes a requery call is given in the model
RequeryOutcomes ==
    [kind : {"ok"}, status : {Some(x) : x \in DeliveredStatuses} \cup {NULL}]
    \cup [kind : {"timeout"}, status : {NULL}]

\* config.py:21, 53-54: the shared secret; create_app refuses to start
\* without one
IACAFE_WEBHOOK_SECRET == "k1"

\* secret.encode(): the bytes of the keys of the model.  "k1<NUL>" is the
\* secret followed by a zero byte.
encode ==
    [key \in {"k1", "k2", "k1<NUL>"} |->
        CASE key = "k1" -> <<107, 49>>
          [] key = "k2" -> <<107, 50>>
          [] key = "k1<NUL>" -> <<107, 49, 0>>]

\* hmac.new pads a key shorter than the block of the hash with zero bytes
\* up to the block: the zero bytes a key ends in make no difference.  (A
\* key longer than the block is replaced by its hash; the keys of the model
\* are shorter.)
RECURSIVE block_key(_)
block_key(bytes) ==
    IF bytes # <<>> /\ bytes[Len(bytes)] = 0
    THEN block_key(SubSeq(bytes, 1, Len(bytes) - 1))
    ELSE bytes

hmac_key == [key \in DOMAIN encode |-> block_key(encode[key])]

\* hmac.new(key, message, sha256).hexdigest(): a value that is the same
\* for the same padded key and the same message only
hmac_hexdigest(key, message) == [key |-> hmac_key[key], message |-> message]

\* The mutant of verify_webhook_signature: the digest is not compared, only
\* the key that made it.
verify_webhook_signature_keyonly(timestamp, signature, raw_body, secret) ==
    signature.key = hmac_key[secret]

\* webhooks.py:23-50: the message is timestamp + b"." + raw_body, one
\* string of bytes
verify_webhook_signature(timestamp, signature, raw_body, secret) ==
    signature = hmac_hexdigest(secret, timestamp \o "." \o raw_body)

\* webhooks.py:127
supported_events == {"transaction.created", "transaction.status_changed"}

\* The mutant of event_supported: every event is processed.
event_supported_any(event) == TRUE

\* webhooks.py:127-130
event_supported(event) == event \in supported_events

\* The mutant of headers_present: the delivery id is not required.
headers_present_nodelivery(req) ==
    /\ req.signature # NULL /\ Truthy(req.timestamp) /\ Truthy(req.event)

\* webhooks.py:93: all([signature, timestamp, event, delivery_id])
headers_present(req) ==
    /\ req.signature # NULL /\ Truthy(req.timestamp)
    /\ Truthy(req.event) /\ Truthy(req.delivery)

\* The JSON document of a webhook body: an object with the event and with
\* data an object, of which data.request_id, data.status, data.reference (a
\* key that is absent: NULL).
Payload(event, request_id, body) ==
    Some([json |-> "object", event |-> event, data |-> "object",
          request_id |-> request_id, status |-> body.vs, reference |-> body.ref])

\* JSON values that are no such document: the number 5, the list
\* ["event", "data"], and an object whose data is the number 5
JsonNumber == Some([json |-> "number"])
JsonArray == Some([json |-> "array"])
DataNumber == Some([json |-> "object", event |-> "transaction.status_changed",
                    data |-> "number"])

\* the documents the bodies of the model carry
Payloads ==
    {Payload(event, request_id, body) :
        event \in {"transaction.status_changed", "transaction.deleted"},
        request_id \in {Some(RID), Some("VECTRA_2"), NULL},
        body \in Bodies}

\* the JSON values the bodies of the model are the text of
JsonValues == Payloads \cup {JsonNumber, JsonArray, DataNumber}

\* The bytes of a body: the text of the JSON value.  A body that is not the
\* text of a JSON value (or is the text of null) is the text "<html>".
json_dumps(payload) ==
    LET T(v) == IF v = NULL THEN "null" ELSE v[1]
    IN  IF payload = NULL THEN "<html>"
        ELSE IF payload = JsonNumber THEN "5"
        ELSE IF payload = JsonArray THEN "[event,data]"
        ELSE IF payload = DataNumber THEN "{" \o payload[1].event \o ",5}"
        ELSE "{" \o payload[1].event \o "," \o T(payload[1].request_id) \o ","
                 \o T(payload[1].status) \o "," \o T(payload[1].reference) \o "}"

\* the bodies that are the text of a JSON value, and the value of each
Documents == {json_dumps(payload) : payload \in JsonValues}
ParsedDocuments ==
    [raw_body \in Documents |->
        CHOOSE payload \in JsonValues : json_dumps(payload) = raw_body]

\* webhooks.py:113-118, request.get_json(): the JSON value the bytes are
\* the text of; NULL when they are the text of none (the exception of the
\* parser is caught and answered 400, as a null payload is at 122-124)
get_json(raw_body) ==
    IF raw_body \in Documents THEN ParsedDocuments[raw_body] ELSE NULL

\* the X-VTU-Signature the holder of key makes for timestamp and raw_body
Signed(key, timestamp, raw_body) ==
    Some(hmac_hexdigest(key, timestamp \o "." \o raw_body))

\* A webhook request: the four headers (absent: NULL) and the bytes of the
\* body.  The request the vendor sends for delivery did with body body:
GoodRequest(did, body) ==
    LET raw == json_dumps(Payload("transaction.status_changed", Some(RID), body))
    IN  [signature |-> Signed(IACAFE_WEBHOOK_SECRET, "t1", raw),
         timestamp |-> Some("t1"),
         event |-> Some("transaction.status_changed"),
         delivery |-> Some(did),
         body |-> raw]

NoRequest ==
    [signature |-> NULL, timestamp |-> NULL, event |-> NULL, delivery |-> NULL,
     body |-> ""]

\* a request signed by the vendor over the payload it carries
WithPayload(req, payload) ==
    [req EXCEPT !.body = json_dumps(payload),
                !.signature = Signed(IACAFE_WEBHOOK_SECRET, "t1", json_dumps(payload))]

\* The requests that are not the vendor's own: one of them with a header
\* taken away, with a signature made with another key, over another
\* timestamp or over another body, with a body that is no payload, with an
\* event that is not supported, without a request_id or with one the table
\* does not hold; some with two of these at once; with a body that is JSON
\* but no document; one signed with the secret followed by a zero byte (the
\* same digest: it is the vendor's request); and one whose timestamp header
\* has taken over the first byte of the body that was signed.
OddRequests ==
    LET body == [vs |-> Some("completed-api"), ref |-> Some("ref1")]
        other == [vs |-> Some("unprocessable"), ref |-> NULL]
        base == GoodRequest("dA", body)
        forged == {Signed("k2", "t1", base.body),
                   Signed(IACAFE_WEBHOOK_SECRET, "t0", base.body),
                   Signed(IACAFE_WEBHOOK_SECRET, "t1",
                          json_dumps(Payload("transaction.status_changed",
                                             Some(RID), other)))}
        unknown == WithPayload(base,
                       Payload("transaction.status_changed", Some("VECTRA_2"), body))
        unsupported == WithPayload(base, Payload("transaction.deleted", Some(RID), body))
    IN  {[base EXCEPT !.signature = NULL], [base EXCEPT !.timestamp = NULL],
         [base EXCEPT !.event = NULL], [base EXCEPT !.delivery = NULL]}
        \cup {[base EXCEPT !.signature = sig] : sig \in forged}
        \cup {[base EXCEPT !.delivery = NULL,
                           !.signature = Signed("k2", "t1", base.body)],
              [unknown EXCEPT !.signature = Signed("k2", "t1", unknown.body)],
              [unsupported EXCEPT !.signature = Signed("k2", "t1", unsupported.body)]}
        \cup {WithPayload(base, NULL), unsupported, unknown,
              WithPayload(base, Payload("transaction.status_changed", NULL, body))}
        \cup {WithPayload(base, JsonNumber), WithPayload(base, JsonArray),
              WithPayload(base, DataNumber)}
        \cup {[base EXCEPT !.signature = Signed("k1<NUL>", "t1", base.body)]}
        \cup {[base EXCEPT !.timestamp = Some("t1."),
                           !.signature = Signed(IACAFE_WEBHOOK_SECRET, "t1",
                                                "." \o base.body)]}

\* the deliveries of the vendor
VendorRequests == {GoodRequest(did, body) : did \in DeliveryIds, body \in Bodies}

WebhookRequests == VendorRequests \cup OddRequests

\* webhooks.py:84-140 and the lookup of 143-150 for an id the table does not
\* hold: the first check the request fails, as a form of WebhookForms, and
\* "ok" for a request that names the transaction of the model.  A payload
\* that is a number raises TypeError in the test 'event' not in payload
\* (122); the list ["event", "data"] passes that test and raises it at
\* payload['event'] (128): both outside every try of the handler.  data
\* that is no object raises at data.get (134), inside the try of 132.
webhook_gate(req) ==
    LET payload == get_json(req.body)
    IN  IF ~headers_present(req) THEN "missing_header"
        ELSE IF ~verify_webhook_signature(req.timestamp[1], req.signature[1],
                                          req.body, IACAFE_WEBHOOK_SECRET)
        THEN "bad_signature"
        ELSE IF payload = NULL THEN "bad_payload"
        ELSE IF payload[1].json = "number" THEN "unhandled_error"
        ELSE IF payload[1].json = "array" THEN "unhandled_error"
        ELSE IF ~event_supported(payload[1].event) THEN "unsupported_event"
        ELSE IF payload[1].data # "object" THEN "server_error"
        ELSE IF ~Truthy(payload[1].request_id) THEN "no_request_id"
        ELSE IF payload[1].request_id # Some(RID) THEN "unknown_request"
        ELSE "ok"

NoInput == [did |-> "", vs |-> NULL, ref |-> NULL]
NoTry == Err("NoAttempt", "", "")
\* the vendor's purchase operation was not called
NoOutcome == [kind |-> "none", status |-> NULL, at |-> ""]
\* the vendor's purchase operation was called while the stored status was
\* at, and came to outcome
Called(outcome, at) == [kind |-> outcome.kind, status |-> outcome.status, at |-> at]

\* fresh: what the worker found when it read the table was new (a delivery
\* id not applied before, a request id not stored before); at: the status
\* the row had when the worker read it; req: the webhook request in hand
Idle ==
    [pc |-> "idle", obj |-> Expired, inp |-> NoInput, tried |-> NoTry,
     fresh |-> TRUE, at |-> "", req |-> NoRequest]

\* a response: who answered, the HTTP status and message, the outcome of the
\* handler's last status assignment, and what the vendor's purchase
\* operation came to if the handler called it
Reply(p, code, msg, tried, vendor) ==
    [by |-> p, code |-> code, msg |-> msg, tried |-> tried, vendor |-> vendor,
     req |-> NoRequest]
NoReply == Reply("", 0, "", NoTry, NoOutcome)

InFlight(p) == procs[p].pc # "idle"

\* Requests are taken while the budget lasts; of the two webhook workers
\* and of the two intake workers the second takes a request only while the
\* first is busy.  A server with
\* a single synchronous worker takes a request when the one before it has
\* been answered; one with a pair of threads takes a request while at most
\* one other is in flight.
CanTake(p) ==
    /\ ~InFlight(p)
    /\ pool = "live" \/ requests < MaxRequests
    /\ p = "w2" => InFlight("w1")
    /\ p = "p2" => InFlight("p1")
    /\ pool \in {"single", "live"} => \A q \in Procs : ~InFlight(q)
    /\ pool = "pair" => Cardinality({q \in Procs : InFlight(q)}) <= 1

\* a request is taken from the queue: the requests of a run are counted,
\* except where the server is left running for good
Taken == requests' = IF pool = "live" THEN requests ELSE requests + 1

HasRow(st) == RID \in DOMAIN st
NoRows == [r \in {} |-> NewRow(0)]
OneRow(rowv) == [r \in {RID} |-> rowv]

\* The mutant of existing_transaction: the query finds nothing.
existing_transaction_none(st) == FALSE

\* airtime.py:84-88, data.py:152-156: the query for a row with the request
\* id the handler generated finds one
existing_transaction(st) == HasRow(st)

\* db.add and db.commit of a new row (airtime.py:111-112, data.py:178-179)
\* under the unique constraint on request_id (models.py:88-91): the INSERT
\* of a second row with the id raises IntegrityError
db_insert(st, rowv) ==
    IF HasRow(st) THEN [ok |-> FALSE, store |-> st]
    ELSE [ok |-> TRUE, store |-> OneRow(rowv)]


Result(st, code, msg, tried, vendor) ==
    [store |-> st, code |-> code, msg |-> msg, tried |-> tried, vendor |-> vendor]

\* a stored provider_response: the vendor's body (or the error text), and
\* the refund_reference key refund adds
Body(kind, status) == Some([kind |-> kind, status |-> status, refund |-> NULL])

----------------------------------------------------------------------------
(* Purchase intake *)

\* airtime.py:134-203, the handler from the vendor call on.  obj is the
\* object change_transaction_status refreshed, rowv the stored row.
airtime_after_processing(obj, rowv, outcome, t) ==
    IF outcome.kind \in Raises
    THEN \* 181-203: store the error, then try FAILED on the expired object
         LET o1 == SetAttr(SetAttr(obj, "provider_response", Body("error", NULL)),
                           "error_message", Some(outcome.kind))
             r1 == Flush(rowv, o1, t)
             c == change_transaction_status(Expired, r1, FAILED, t)
         IN  Result(OneRow(c.row), 500, "Airtime purchase failed. Please try again.",
                    c.res, Called(outcome, rowv.status))
    ELSE \* 143-148: store the response; the commit expires the object
         LET o1 == SetAttr(SetAttr(SetAttr(obj,
                       "provider_response", Body(outcome.kind, outcome.status)),
                       "iacafe_reference", Some("")),
                       "iacafe_status", Get(outcome.status, Some("")))
             r1 == Flush(rowv, o1, t)
         IN  IF outcome.kind = "rejected"
             THEN LET c == change_transaction_status(Expired, r1, FAILED, t)
                  IN  Result(OneRow(c.row), 400, "Airtime purchase failed", c.res,
                             Called(outcome, rowv.status))
             ELSE Result(OneRow(r1), 200, "Airtime purchase initiated successfully",
                         Ok, Called(outcome, rowv.status))

\* airtime.py:99-203, the handler from the INSERT on.  An IntegrityError
\* is answered 500 (114-120).  The commit of line 112 expires the object;
\* nothing reads it before line 126 assigns PROCESSING.
purchase_airtime(st, outcome, t) ==
    LET i == db_insert(st, NewRow(t))
    IN  IF ~i.ok
        THEN Result(st, 500, "Failed to create transaction", NoTry, NoOutcome)
        ELSE LET c == change_transaction_status(Expired, NewRow(t), PROCESSING, t)
             IN  IF ~c.res.ok
                 THEN Result(OneRow(c.row), 500, "Failed to process transaction",
                             c.res, NoOutcome)
                 ELSE airtime_after_processing(Loaded(c.row), c.row, outcome, t)

\* whether the handler gets as far as the vendor call (airtime.py:136)
airtime_calls_vendor(st, t) ==
    /\ db_insert(st, NewRow(t)).ok
    /\ change_transaction_status(Expired, NewRow(t), PROCESSING, t).res.ok

\* data.py:183-263, the handler from the vendor call on; obj is the object
\* the commit of line 179 expired.  Statuses are assigned directly (205,
\* 207, 224, 239), each through the guard; a ValueError inside the try
\* lands in the handler of 237, whose own assignment of FAILED may raise
\* into the handler of 257 (rollback).
data_after_create(obj, rowv, outcome, t) ==
    LET o1 == IF outcome.kind = "ok"
              THEN SetAttr(SetAttr(obj, "iacafe_reference", Some("")),
                           "iacafe_status", Get(outcome.status, Some("")))
              ELSE obj
        normalized == normalize_status(Get(outcome.status, Some(""))[1])
        target == CASE outcome.kind = "rejected" -> FAILED
                    [] outcome.kind = "ok" /\ normalized = "SUCCESS" -> PROCESSING
                    [] OTHER -> normalized
        \* TransactionStatus('PENDING') is a ValueError: PENDING is no value
        g == IF outcome.kind \in Raises THEN Err("VendorException", "", "")
             ELSE IF target \notin TransactionStatus
             THEN Err("UnknownStatus", "", target)
             ELSE validate_status_transition(StatusInDict(o1), target)
        g2 == validate_status_transition(StatusInDict(o1), FAILED)
    IN  IF g.ok
        THEN LET o2 == IF outcome.kind = "rejected"
                       THEN SetAttr(SetAttr(o1, "status", target),
                                    "error_message", Some("API call failed"))
                       ELSE SetAttr(o1, "status", target)
             IN  Result(OneRow(Flush(rowv, o2, t)),
                        IF outcome.kind = "rejected" THEN 400 ELSE 200,
                        IF outcome.kind = "rejected" THEN "Data purchase failed"
                        ELSE "Data purchase initiated successfully", Ok,
                        Called(outcome, rowv.status))
        ELSE IF g2.ok
        THEN LET o2 == SetAttr(SetAttr(o1, "status", FAILED),
                               "error_message", Some(g.err))
             IN  Result(OneRow(Flush(rowv, o2, t)), 500,
                        "Data purchase failed. Please try again.", Ok,
                        Called(outcome, rowv.status))
        ELSE Result(OneRow(rowv), 500, "Internal server error", g2,
                    Called(outcome, rowv.status))

\* the airtime responses whose body has data.transaction (airtime.py:158-166,
\* 171-179, 196-203); those of 117-120 and 129-132 have no data
airtime_snapshot_messages ==
    {"Airtime purchase failed", "Airtime purchase initiated successfully",
     "Airtime purchase failed. Please try again."}

\* the data responses whose body has data.transaction (data.py:213-221,
\* 228-235, 249-256); that of 257-263 has no data
data_snapshot_messages ==
    {"Data purchase failed", "Data purchase initiated successfully",
     "Data purchase failed. Please try again."}

----------------------------------------------------------------------------
(* Refund *)

\* transactions.py:76-84, models.py:86, database.py:13-22.  updated_at is
\* a DateTime(timezone=True) column: PostgreSQL returns it with tzinfo,
\* SQLite without.  now is datetime.utcnow(), without tzinfo, and the
\* subtraction of 84 between the two kinds raises TypeError.  The age is
\* computed for a PROCESSING row only.
AgeRaises(rowv, db) == rowv.status = PROCESSING /\ db = "postgresql"

\* transactions.py:76-85: FAILED, or PROCESSING and older than the timeout
CanRefund(rowv, t) ==
    \/ rowv.status = FAILED
    \/ /\ rowv.status = PROCESSING
       /\ (t - rowv.updated_at) > REQUERY_TIMEOUT_MINUTES

\* The mutant of refund_transaction: after a rejected REFUNDED the refund
\* reference is stored all the same (no rollback).
refund_transaction_norollback(st, t, db) ==
    IF ~HasRow(st) THEN Result(st, 404, "Transaction not found", NoTry, NoOutcome)
    ELSE IF AgeRaises(st[RID], db)
    THEN Result(st, 500, "Internal server error", NoTry, NoOutcome)
    ELSE IF ~CanRefund(st[RID], t)
    THEN Result(st, 400, "Refund not allowed for current status", NoTry, NoOutcome)
    ELSE LET c == change_transaction_status(Loaded(st[RID]), st[RID], REFUNDED, t)
             o1 == SetAttr(IF c.res.ok THEN Loaded(c.row) ELSE c.obj,
                           "provider_response",
                           Some([kind |-> "refund", status |-> NULL,
                                 refund |-> Some(t)]))
         IN  Result(OneRow(Flush(c.row, o1, t)),
                    IF c.res.ok THEN 200 ELSE 500,
                    IF c.res.ok THEN "refunded" ELSE "Refund failed",
                    c.res, NoOutcome)

\* transactions.py:63-112.  The object is the one the query loaded.  After
\* a successful REFUNDED (92-97): a NULL or empty provider_response is
\* replaced by a new dict, which the flush writes; an existing dict is
\* re-assigned and changed in place, which the flush sees as no change.
\* An exception of the age test (84) is caught at 110-112: only the lookup
\* has run, the row is as it was.
refund_transaction(st, t, db) ==
    IF ~HasRow(st) THEN Result(st, 404, "Transaction not found", NoTry, NoOutcome)
    ELSE IF AgeRaises(st[RID], db)
    THEN Result(st, 500, "Internal server error", NoTry, NoOutcome)
    ELSE IF ~CanRefund(st[RID], t)
    THEN Result(st, 400, "Refund not allowed for current status", NoTry, NoOutcome)
    ELSE LET c == change_transaction_status(Loaded(st[RID]), st[RID], REFUNDED, t)
         IN  IF ~c.res.ok THEN Result(st, 500, "Refund failed", c.res, NoOutcome)
             ELSE LET o1 == IF c.row.provider_response = NULL
                            THEN SetAttr(Loaded(c.row), "provider_response",
                                    Some([kind |-> "refund", status |-> NULL,
                                          refund |-> Some(t)]))
                            ELSE Loaded(c.row)
                  IN  Result(OneRow(Flush(c.row, o1, t)), 200, "refunded", Ok, NoOutcome)

----------------------------------------------------------------------------
(* Webhook ingestion: the checks before a delivery is applied *)

\* The mutant of webhook_guard: no duplicate check.
webhook_guard_nodedup(st, did) ==
    IF ~HasRow(st) THEN "Transaction not found; ignored"
    ELSE IF st[RID].status \in {SUCCESS, FAILED} THEN "Already terminal; ignored"
    ELSE ""

\* The mutant of webhook_guard: no terminal check.
webhook_guard_noterminal(st, did) ==
    IF ~HasRow(st) THEN "Transaction not found; ignored"
    ELSE IF st[RID].webhook_delivery_id = Some(did) THEN "Duplicate delivery ignored"
    ELSE ""

\* webhooks.py:141-160: the acknowledgement a verified delivery with id did
\* is given without being applied, or "" when it is to be applied
webhook_guard(st, did) ==
    IF ~HasRow(st) THEN "Transaction not found; ignored"
    ELSE IF st[RID].webhook_delivery_id = Some(did) THEN "Duplicate delivery ignored"
    ELSE IF st[RID].status \in {SUCCESS, FAILED} THEN "Already terminal; ignored"
    ELSE ""

\* The mutant of webhook_evidence: the delivery id is not recorded.
webhook_evidence_nodid(obj, inp, t) ==
    LET o1 == SetAttr(SetAttr(obj,
                 "webhook_payload", Some([status |-> inp.vs, reference |-> inp.ref])),
                 "webhook_received_at", Some(t))
        o2 == IF Truthy(inp.ref) THEN SetAttr(o1, "iacafe_reference", inp.ref) ELSE o1
    IN  SetAttr(o2, "error_message", o2.vals.error_message)

\* webhooks.py:191-202: payload, receipt time, delivery id (if there is one)
\* and reference are put on the object.  data.get('error_message', transaction.error_message):
\* the bodies of the model carry no error_message.
webhook_evidence(obj, inp, t) ==
    LET o0 == SetAttr(SetAttr(obj,
                 "webhook_payload", Some([status |-> inp.vs, reference |-> inp.ref])),
                 "webhook_received_at", Some(t))
        o1 == IF inp.did # "" THEN SetAttr(o0, "webhook_delivery_id", Some(inp.did))
              ELSE o0
        o2 == IF Truthy(inp.ref) THEN SetAttr(o1, "iacafe_reference", inp.ref) ELSE o1
    IN  SetAttr(o2, "error_message", o2.vals.error_message)

----------------------------------------------------------------------------
(* Actions *)


\* no webhook has been acknowledged since the last other request
NoIngest ==
    [form |-> "", did |-> "", vs |-> NULL, ref |-> NULL, after |-> NoRows,
     count |-> 0]

\* the delivery d (form, id, body) is the one acknowledged last
SameDelivery(d) ==
    /\ lastIngest.form = d.form
    /\ lastIngest.did = d.did
    /\ lastIngest.vs = d.vs
    /\ lastIngest.ref = d.ref

\* the history after delivery d was acknowledged with the table as st: the
\* table it left, and whether it came once or again in a row
Ingested(d, st) ==
    [form |-> d.form, did |-> d.did, vs |-> d.vs, ref |-> d.ref, after |-> st,
     count |-> IF SameDelivery(d) THEN 2 ELSE 1]

\* the history while delivery d is being handled
Ingesting(d) == IF SameDelivery(d) THEN lastIngest ELSE NoIngest

Delivery(form, inp) ==
    [form |-> form, did |-> inp.did, vs |-> inp.vs, ref |-> inp.ref]

\* worker p answers and is free again
Answer(p, code, msg, tried, vendor) ==
    /\ procs' = [procs EXCEPT ![p] = Idle]
    /\ reply' = Reply(p, code, msg, tried, vendor)

\* worker w answers a webhook request before it has touched the row
AnswerWebhook(w, code, msg, req) ==
    /\ procs' = [procs EXCEPT ![w] = Idle]
    /\ reply' = [Reply(w, code, msg, NoTry, NoOutcome) EXCEPT !.req = req]

\* a step of a handler that issues no response
Silent == reply' = NoReply

\* The clock moves in steps much longer than a request lasts (the vendor
\* call times out after 30 s, iacafe.py:130): it moves between requests.
Tick ==
    /\ now + TickMinutes <= MaxTime
    /\ \A p \in Procs : ~InFlight(p)
    /\ now' = now + TickMinutes
    /\ reply' = NoReply
    /\ UNCHANGED <<store, procs, requests, applied, lastIngest, unit, pool, engine, inserted>>

\* airtime.py:22-97: validation and the duplicate check
PurchaseAirtimeCheck(p) ==
    /\ p \in IntakeProcs /\ CanTake(p)
    /\ \E form \in IntakeForms :
         IF form # "ok"
         THEN Answer(p, 400, form, NoTry, NoOutcome)
         ELSE IF existing_transaction(store)
         THEN Answer(p, 409, "Duplicate request detected", NoTry, NoOutcome)
         ELSE /\ procs' = [procs EXCEPT ![p] =
                    [Idle EXCEPT !.pc = "a_insert", !.fresh = ~HasRow(store)]]
              /\ Silent
    /\ lastIngest' = NoIngest
    /\ Taken
    /\ UNCHANGED <<store, now, applied, unit, pool, engine, inserted>>

\* airtime.py:99-203: the INSERT and the rest of the handler; the vendor's
\* outcome is drawn when the handler gets to the call
PurchaseAirtimeInsert(p) ==
    /\ procs[p].pc = "a_insert"
    /\ \E outcome \in IF airtime_calls_vendor(store, now)
                     THEN VendorOutcomes ELSE {[kind |-> "none", status |-> NULL]} :
         LET r == purchase_airtime(store, outcome, now)
         IN  /\ store' = r.store
             /\ Answer(p, r.code, r.msg, r.tried, r.vendor)
    /\ inserted' = IF db_insert(store, NewRow(now)).ok THEN inserted + 1 ELSE inserted
    /\ lastIngest' = NoIngest
    /\ UNCHANGED <<now, requests, applied, unit, pool, engine>>

\* data.py:106-164: validation and the duplicate check
PurchaseDataCheck(p) ==
    /\ p \in IntakeProcs /\ CanTake(p)
    /\ \E form \in IntakeForms \cup {"bad_plan"} :
         IF form # "ok"
         THEN Answer(p, 400, form, NoTry, NoOutcome)
         ELSE IF existing_transaction(store)
         THEN Answer(p, 409, "Duplicate request detected", NoTry, NoOutcome)
         ELSE /\ procs' = [procs EXCEPT ![p] =
                    [Idle EXCEPT !.pc = "d_insert", !.fresh = ~HasRow(store)]]
              /\ Silent
    /\ lastIngest' = NoIngest
    /\ Taken
    /\ UNCHANGED <<store, now, applied, unit, pool, engine, inserted>>

\* data.py:166-181: INSERT with INITIATED; an IntegrityError lands in the
\* handler of 257 (rollback, 500).  The vendor is called next, with the row
\* as this step leaves it.
PurchaseDataCreate(p) ==
    /\ procs[p].pc = "d_insert"
    /\ LET i == db_insert(store, NewRow(now))
       IN  IF ~i.ok
           THEN /\ Answer(p, 500, "Internal server error", NoTry, NoOutcome)
                /\ UNCHANGED <<store, inserted>>
           ELSE /\ store' = i.store
                /\ inserted' = inserted + 1
                /\ procs' = [procs EXCEPT ![p].pc = "d_vendor"]
                /\ Silent
    /\ lastIngest' = NoIngest
    /\ UNCHANGED <<now, requests, applied, unit, pool, engine>>

\* data.py:183-263: the vendor call returns or raises, and the handler
\* finishes
PurchaseDataVendor(p) ==
    /\ procs[p].pc = "d_vendor"
    /\ \E outcome \in VendorOutcomes :
         LET r == data_after_create(procs[p].obj, store[RID], outcome, now)
         IN  /\ store' = r.store
             /\ Answer(p, r.code, r.msg, r.tried, r.vendor)
    /\ lastIngest' = NoIngest
    /\ UNCHANGED <<now, requests, applied, unit, pool, engine, inserted>>

\* webhooks.py:53-160: headers, signature, payload, lookup, the duplicate
\* check and the terminal check.  A delivery that passes holds the row as
\* the query loaded it.  The reconciliation runs (pool "pair") take the
\* vendor's own deliveries only; what the gate turns away is in the other
\* runs.
WebhookReceive(w) ==
    /\ w \in WebhookProcs /\ CanTake(w)
    /\ \E req \in IF pool = "pair" THEN VendorRequests ELSE WebhookRequests :
         LET form == webhook_gate(req)
             code == CASE form = "bad_signature" -> 401
                       [] form \in {"unsupported_event", "unknown_request"} -> 200
                       [] form \in {"unhandled_error", "server_error"} -> 500
                       [] OTHER -> 400
             did == IF req.delivery = NULL THEN "" ELSE req.delivery[1]
             payload == get_json(req.body)
             inp == IF form # "ok" THEN [NoInput EXCEPT !.did = did]
                    ELSE [did |-> did, vs |-> payload[1].status,
                          ref |-> payload[1].reference]
             ack == webhook_guard(store, did)
         IN  IF form # "ok"
             THEN /\ AnswerWebhook(w, code, form, req)
                  /\ lastIngest' = IF code = 200
                                   THEN Ingested(Delivery(form, NoInput), store)
                                   ELSE NoIngest
             ELSE IF ack # ""
             THEN /\ AnswerWebhook(w, 200, ack, req)
                  /\ lastIngest' = Ingested(Delivery("ok", inp), store)
             ELSE /\ procs' = [procs EXCEPT ![w] =
                       [pc |-> IF Truthy(inp.vs) THEN "w_apply" ELSE "w_store",
                        obj |-> Loaded(store[RID]), inp |-> inp,
                        tried |-> NoTry, fresh |-> did \notin applied,
                        at |-> store[RID].status, req |-> req]]
                  /\ Silent
                  /\ lastIngest' = Ingesting(Delivery("ok", inp))
    /\ Taken
    /\ UNCHANGED <<store, now, applied, unit, pool, engine, inserted>>

\* webhooks.py:162-189: the vendor status is put on the object, normalized,
\* and a SUCCESS, REFUNDED or FAILED is assigned through
\* change_transaction_status, as far as its commit; its ValueError is
\* logged and dropped.
WebhookApply(w) ==
    /\ procs[w].pc = "w_apply"
    /\ LET o1 == SetAttr(procs[w].obj, "iacafe_status", procs[w].inp.vs)
           normalized == normalize_status(procs[w].inp.vs[1])
           c == IF normalized \in {SUCCESS, REFUNDED, FAILED}
                THEN change_transaction_status(o1, store[RID], normalized, now)
                ELSE [res |-> NoTry, obj |-> o1, row |-> store[RID]]
       IN  /\ store' = OneRow(c.row)
           /\ procs' = [procs EXCEPT
                          ![w].pc = IF c.res.ok THEN "w_refresh" ELSE "w_store",
                          ![w].obj = c.obj, ![w].tried = c.res]
           /\ Silent
           /\ lastIngest' = Ingesting(Delivery("ok", procs[w].inp))
    /\ UNCHANGED <<now, requests, applied, unit, pool, engine, inserted>>

\* transaction_service.py:24, db.refresh after the commit: the object is
\* loaded with the row as the table holds it now
WebhookRefresh(w) ==
    /\ procs[w].pc = "w_refresh"
    /\ procs' = [procs EXCEPT ![w].pc = "w_store", ![w].obj = Loaded(store[RID])]
    /\ Silent
    /\ lastIngest' = Ingesting(Delivery("ok", procs[w].inp))
    /\ UNCHANGED <<store, now, requests, applied, unit, pool, engine, inserted>>

\* webhooks.py:191-212: payload, receipt time, delivery id and reference are
\* put on the object and committed, whatever became of the status.
WebhookStore(w) ==
    /\ procs[w].pc = "w_store"
    /\ LET inp == procs[w].inp
           st == OneRow(Flush(store[RID], webhook_evidence(procs[w].obj, inp, now), now))
       IN  /\ store' = st
           /\ Answer(w, 200, "Webhook processed", procs[w].tried, NoOutcome)
           /\ applied' = applied \cup {inp.did}
           /\ lastIngest' = Ingested(Delivery("ok", inp), st)
    /\ UNCHANGED <<now, requests, unit, pool, engine, inserted>>

\* The mutant of requery_terminal: REFUNDED is not taken as terminal.
requery_terminal_norefunded(rowv) == rowv.status \in {SUCCESS, FAILED}

\* transactions.py:28: the statuses requery answers without a vendor call
requery_terminal(rowv) == rowv.status \in {SUCCESS, FAILED, REFUNDED}

\* transactions.py:17-29: lookup and the terminal check
RequeryLoad(q) ==
    /\ q \in RequeryProcs /\ CanTake(q)
    /\ IF ~HasRow(store)
       THEN Answer(q, 404, "Transaction not found", NoTry, NoOutcome)
       ELSE IF requery_terminal(store[RID])
       THEN Answer(q, 200, "terminal", NoTry, NoOutcome)
       ELSE /\ procs' = [procs EXCEPT ![q] =
                   [Idle EXCEPT !.pc = "q_vendor", !.obj = Loaded(store[RID])]]
            /\ reply' = NoReply
    /\ lastIngest' = NoIngest
    /\ Taken
    /\ UNCHANGED <<store, now, applied, unit, pool, engine, inserted>>

\* The mutant of RequeryVendor: a failed vendor call is stored as the
\* provider response before the 502.
RequeryVendor_storeserror(q) ==
    /\ procs[q].pc = "q_vendor"
    /\ \E outcome \in RequeryOutcomes :
         LET o == procs[q].obj
             o1 == IF outcome.kind # "ok"
                   THEN SetAttr(o, "provider_response", Body("error", NULL))
                   ELSE SetAttr(SetAttr(o,
                           "provider_response", Body("requery", outcome.status)),
                           "iacafe_status", Get(outcome.status, o.vals.iacafe_status))
         IN  /\ store' = OneRow(Flush(store[RID], o1, now))
             /\ IF outcome.kind # "ok"
                THEN Answer(q, 502, "Provider requery failed", NoTry, NoOutcome)
                ELSE /\ procs' = [procs EXCEPT ![q] =
                           [Idle EXCEPT !.pc = "q_apply", !.inp.vs = outcome.status]]
                     /\ reply' = NoReply
    /\ lastIngest' = NoIngest
    /\ UNCHANGED <<now, requests, applied, unit, pool, engine, inserted>>

\* transactions.py:31-42: the vendor call; its response and status are
\* stored and committed, which expires the object
RequeryVendor(q) ==
    /\ procs[q].pc = "q_vendor"
    /\ \E outcome \in RequeryOutcomes :
         IF outcome.kind # "ok"
         THEN /\ Answer(q, 502, "Provider requery failed", NoTry, NoOutcome)
              /\ UNCHANGED store
         ELSE LET o == procs[q].obj
                  o1 == SetAttr(SetAttr(o,
                           "provider_response", Body("requery", outcome.status)),
                           "iacafe_status", Get(outcome.status, o.vals.iacafe_status))
              IN  /\ store' = OneRow(Flush(store[RID], o1, now))
                  /\ procs' = [procs EXCEPT ![q] =
                        [Idle EXCEPT !.pc = "q_apply", !.inp.vs = outcome.status]]
                  /\ reply' = NoReply
    /\ lastIngest' = NoIngest
    /\ UNCHANGED <<now, requests, applied, unit, pool, engine, inserted>>

\* transactions.py:44-56: the normalized status is assigned through
\* change_transaction_status on the expired object; a ValueError is logged
RequeryApply(q) ==
    /\ procs[q].pc = "q_apply"
    /\ LET normalized == normalize_status(Get(procs[q].inp.vs, Some(""))[1])
           c == IF normalized \in {SUCCESS, FAILED}
                THEN change_transaction_status(procs[q].obj, store[RID],
                                               normalized, now)
                ELSE [res |-> NoTry, obj |-> procs[q].obj, row |-> store[RID]]
       IN  /\ store' = OneRow(c.row)
           /\ Answer(q, 200, "requery completed", c.res, NoOutcome)
           /\ lastIngest' = NoIngest
    /\ UNCHANGED <<now, requests, applied, unit, pool, engine, inserted>>

\* transactions.py:63-112: one request, from the lookup to the response
RefundTransaction(f) ==
    /\ f \in RefundProcs /\ CanTake(f)
    /\ LET r == refund_transaction(store, now, engine)
       IN  /\ store' = r.store
           /\ Answer(f, r.code, r.msg, r.tried, r.vendor)
           /\ lastIngest' = NoIngest
    /\ Taken
    /\ UNCHANGED <<now, applied, unit, pool, engine, inserted>>

\* app.py:53-55, 94-100: a request to /transactions/requery/<id> or to
\* /transactions/refund/<id> matches no URL rule of the application; no
\* handler runs and the 404 handler answers
RouteNotFound(p) ==
    /\ p \in RequeryProcs \cup RefundProcs /\ CanTake(p)
    /\ Answer(p, 404, "Resource not found", NoTry, NoOutcome)
    /\ lastIngest' = NoIngest
    /\ Taken
    /\ UNCHANGED <<store, now, applied, unit, pool, engine, inserted>>

----------------------------------------------------------------------------
(* change_transaction_status called directly on one transaction object *)

\* the targets of the direct calls: the five values, the alias name PENDING
\* and a string that is no status
UnitTargets == TransactionStatus \cup {"PENDING", "DONE"}

NoUnit == [pc |-> "none", obj |-> Expired, old |-> "", target |-> "", res |-> NoTry]

\* transaction_service.py:5-23 on the caller's object, as far as the
\* commit: old is the stored status when the call is made.  A call that is
\* rejected has returned (raised); one that has committed goes on to its
\* refresh.
UnitChange ==
    /\ unit.pc \notin {"none", "committed"}
    /\ \E target \in UnitTargets :
         LET c == change_transaction_status(unit.obj, store[RID], target, now)
         IN  /\ store' = OneRow(c.row)
             /\ unit' = [pc |-> IF c.res.ok THEN "committed" ELSE "called",
                         obj |-> c.obj, old |-> store[RID].status,
                         target |-> target, res |-> c.res]
    /\ UNCHANGED <<now, procs, reply, requests, applied, lastIngest, pool, engine, inserted>>

\* transaction_service.py:24-25: db.refresh loads the row as the table holds
\* it now, and the call returns
UnitChangeRefresh ==
    /\ unit.pc = "committed"
    /\ unit' = [unit EXCEPT !.pc = "called", !.obj = Loaded(store[RID])]
    /\ UNCHANGED <<store, now, procs, reply, requests, applied, lastIngest, pool, engine, inserted>>

\* the caller's own db.commit() (as airtime.py:112, transactions.py:42):
\* nothing is pending, the object is expired
UnitCommit ==
    /\ unit.pc # "none"
    /\ unit.obj.loaded
    /\ unit' = [unit EXCEPT !.pc = "idle", !.obj = Expired]
    /\ UNCHANGED <<store, now, procs, reply, requests, applied, lastIngest, pool, engine, inserted>>

\* db.refresh, or any read of an attribute of the expired object
UnitRefresh ==
    /\ unit.pc \notin {"none", "committed"}
    /\ ~unit.obj.loaded
    /\ unit' = [unit EXCEPT !.pc = "idle", !.obj = Loaded(store[RID])]
    /\ UNCHANGED <<store, now, procs, reply, requests, applied, lastIngest, pool, engine, inserted>>

----------------------------------------------------------------------------
(* Specifications *)

\* a row as the table can hold it when the workers start: any status,
\* nothing else recorded
StoredRow(st) == [NewRow(0) EXCEPT !.status = st]

\* database.py:13-22: SQLite, unless RENDER is set in the environment
Engines == {"sqlite", "postgresql"}

InitCommon ==
    /\ now = 0
    /\ procs = [p \in Procs |-> Idle]
    /\ reply = NoReply
    /\ requests = 0
    /\ applied = {}
    /\ lastIngest = NoIngest

\* The table is durable: the workers start on an empty table or on one
\* that holds the transaction in any status.
Init ==
    /\ InitCommon
    /\ unit = NoUnit
    /\ pool = "threaded"
    /\ engine = "sqlite"
    /\ store \in {NoRows} \cup {OneRow(StoredRow(st)) : st \in TransactionStatus}
    /\ inserted = Cardinality(DOMAIN store)

\* the workers start on an empty table
InitFresh ==
    /\ InitCommon
    /\ unit = NoUnit
    /\ pool = "threaded"
    /\ engine = "sqlite"
    /\ store = NoRows
    /\ inserted = 0

\* one synchronous worker: the requests run one after the other
InitSerial ==
    /\ InitCommon
    /\ unit = NoUnit
    /\ pool = "single"
    /\ engine = "sqlite"
    /\ store \in {NoRows} \cup {OneRow(StoredRow(st)) : st \in TransactionStatus}
    /\ inserted = Cardinality(DOMAIN store)

\* One synchronous worker on either database.  The refund handler is the
\* only code that computes with a datetime the table returns, and so the
\* only one the engine makes a difference to: the specifications without
\* it run on SQLite.
InitWorker ==
    /\ InitCommon
    /\ unit = NoUnit
    /\ pool = "single"
    /\ engine \in Engines
    /\ store \in {NoRows} \cup {OneRow(StoredRow(st)) : st \in TransactionStatus}
    /\ inserted = Cardinality(DOMAIN store)

\* the workers start on a table that holds the transaction, not yet settled
InitReconcile ==
    /\ InitCommon
    /\ unit = NoUnit
    /\ pool = "pair"
    /\ engine = "sqlite"
    /\ store \in {OneRow(StoredRow(st)) : st \in {INITIATED, PROCESSING}}
    /\ inserted = 1

\* Two threads start on an empty table, on either database: every row of
\* these runs is one the handlers wrote.
InitRace ==
    /\ InitCommon
    /\ unit = NoUnit
    /\ pool = "pair"
    /\ engine \in Engines
    /\ store = NoRows
    /\ inserted = 0

\* a server left running, on an empty table
InitLive ==
    /\ InitCommon
    /\ unit = NoUnit
    /\ pool = "live"
    /\ engine = "sqlite"
    /\ store = NoRows
    /\ inserted = 0

\* a caller holds the transaction as a query loaded it
InitGuard ==
    /\ InitCommon
    /\ pool = "single"
    /\ engine = "sqlite"
    /\ store \in {OneRow(StoredRow(st)) : st \in TransactionStatus}
    /\ inserted = 1
    /\ unit = [NoUnit EXCEPT !.pc = "idle", !.obj = Loaded(store[RID])]

\* The application create_app builds: the routes of airtime_bp, data_bp and
\* webhooks_bp, and the 404 of every other URL.
Next ==
    \/ Tick
    \/ \E p \in Procs : PurchaseAirtimeCheck(p)
    \/ \E p \in Procs : PurchaseAirtimeInsert(p)
    \/ \E p \in Procs : PurchaseDataCheck(p)
    \/ \E p \in Procs : PurchaseDataCreate(p)
    \/ \E p \in Procs : PurchaseDataVendor(p)
    \/ \E p \in Procs : WebhookReceive(p)
    \/ \E p \in Procs : WebhookApply(p)
    \/ \E p \in Procs : WebhookRefresh(p)
    \/ \E p \in Procs : WebhookStore(p)
    \/ \E p \in Procs : RouteNotFound(p)

\* The application on a table that starts empty.  No row leaves INITIATED
\* there, no delivery's status is committed, and the refresh that follows
\* such a commit is no step of these runs.
NextFresh ==
    \/ Tick
    \/ \E p \in Procs : PurchaseAirtimeCheck(p)
    \/ \E p \in Procs : PurchaseAirtimeInsert(p)
    \/ \E p \in Procs : PurchaseDataCheck(p)
    \/ \E p \in Procs : PurchaseDataCreate(p)
    \/ \E p \in Procs : PurchaseDataVendor(p)
    \/ \E p \in Procs : WebhookReceive(p)
    \/ \E p \in Procs : WebhookApply(p)
    \/ \E p \in Procs : WebhookStore(p)
    \/ \E p \in Procs : RouteNotFound(p)

\* The routes of the application and the view functions of transactions_bp
\* (requery_transaction, refund_transaction), run as they run where the
\* blueprint is mounted.
NextWorker ==
    \/ Tick
    \/ \E p \in Procs : PurchaseAirtimeCheck(p)
    \/ \E p \in Procs : PurchaseAirtimeInsert(p)
    \/ \E p \in Procs : PurchaseDataCheck(p)
    \/ \E p \in Procs : PurchaseDataCreate(p)
    \/ \E p \in Procs : PurchaseDataVendor(p)
    \/ \E p \in Procs : WebhookReceive(p)
    \/ \E p \in Procs : WebhookApply(p)
    \/ \E p \in Procs : WebhookRefresh(p)
    \/ \E p \in Procs : WebhookStore(p)
    \/ \E p \in Procs : RequeryLoad(p)
    \/ \E p \in Procs : RequeryVendor(p)
    \/ \E p \in Procs : RequeryApply(p)
    \/ \E p \in Procs : RefundTransaction(p)

\* The four kinds of request, two at a time, on a table that starts
\* empty: the routes of the application and the view functions of
\* transactions_bp.  No delivery's status is committed there, and the
\* refresh that follows such a commit is no step of these runs.
NextRace ==
    \/ Tick
    \/ \E p \in Procs : PurchaseAirtimeCheck(p)
    \/ \E p \in Procs : PurchaseAirtimeInsert(p)
    \/ \E p \in Procs : PurchaseDataCheck(p)
    \/ \E p \in Procs : PurchaseDataCreate(p)
    \/ \E p \in Procs : PurchaseDataVendor(p)
    \/ \E p \in Procs : WebhookReceive(p)
    \/ \E p \in Procs : WebhookApply(p)
    \/ \E p \in Procs : WebhookStore(p)
    \/ \E p \in Procs : RequeryLoad(p)
    \/ \E p \in Procs : RequeryVendor(p)
    \/ \E p \in Procs : RequeryApply(p)
    \/ \E p \in Procs : RefundTransaction(p)

\* reconciliation of a stored transaction: webhook deliveries, and the view
\* function requery_transaction run beside them as it runs where
\* transactions_bp is mounted
NextReconcile ==
    \/ \E p \in Procs : WebhookReceive(p)
    \/ \E p \in Procs : WebhookApply(p)
    \/ \E p \in Procs : WebhookRefresh(p)
    \/ \E p \in Procs : WebhookStore(p)
    \/ \E p \in Procs : RequeryLoad(p)
    \/ \E p \in Procs : RequeryVendor(p)
    \/ \E p \in Procs : RequeryApply(p)

\* The application left running on a table that starts empty: purchases,
\* webhook deliveries and requery requests come again and again.  The
\* requery requests find no route.
NextLive ==
    \/ \E p \in Procs : PurchaseAirtimeCheck(p)
    \/ \E p \in Procs : PurchaseAirtimeInsert(p)
    \/ \E p \in Procs : PurchaseDataCheck(p)
    \/ \E p \in Procs : PurchaseDataCreate(p)
    \/ \E p \in Procs : PurchaseDataVendor(p)
    \/ \E p \in Procs : WebhookReceive(p)
    \/ \E p \in Procs : WebhookApply(p)
    \/ \E p \in Procs : WebhookStore(p)
    \/ \E p \in Procs : RouteNotFound(p)

\* a verified delivery that reports "completed-api" is taken up
TerminalDelivery ==
    \E w \in WebhookProcs :
        WebhookReceive(w) /\ procs'[w].inp.vs = Some("completed-api")

\* a requery of the transaction is requested
RequeryRequested == \E q \in RequeryProcs : RouteNotFound(q)

\* Every request taken up is carried to its answer (a worker thread runs
\* on), a delivery that reports a final status is ingested again and again,
\* and a requery is requested again and again.
Fairness ==
    /\ \A p \in Procs :
          /\ WF_vars(PurchaseAirtimeInsert(p))
          /\ WF_vars(PurchaseDataCreate(p))
          /\ WF_vars(PurchaseDataVendor(p))
          /\ WF_vars(WebhookApply(p))
          /\ WF_vars(WebhookStore(p))
    /\ SF_vars(TerminalDelivery)
    /\ SF_vars(RequeryRequested)

NextGuard ==
    \/ UnitChange
    \/ UnitChangeRefresh
    \/ UnitCommit
    \/ UnitRefresh

Spec == Init /\ [][Next]_vars

SpecFresh == InitFresh /\ [][NextFresh]_vars

SpecSerial == InitSerial /\ [][Next]_vars

\* one request at a time, with transactions_bp mounted
SpecWorker == InitWorker /\ [][NextWorker]_vars

\* purchases, deliveries, requeries and refunds of one transaction on two
\* threads, from the empty table
SpecRace == InitRace /\ [][NextRace]_vars

\* webhook deliveries and requeries for a stored transaction, on two threads
SpecReconcile == InitReconcile /\ [][NextReconcile]_vars

\* the application left running on an empty table, one request at a time,
\* with the deliveries the vendor keeps sending and the requery requests
\* the operator keeps sending
SpecLive == InitLive /\ [][NextLive]_vars /\ Fairness

SpecGuard == InitGuard /\ [][NextGuard]_vars

----------------------------------------------------------------------------
(* The claims *)

\* the step is one in which worker p issues its response
Answers(p) == reply'.by = p
\* the step is one in which a purchase intake request is answered
IntakeAnswers == \E p \in IntakeProcs : Answers(p)
\* the step is the one in which worker w commits the webhook evidence
Stores(w) == procs[w].pc = "w_store" /\ procs'[w].pc = "idle"

C2_NonEdgeRejectedNamingPair ==
    (/\ unit.pc = "called"
     /\ unit.target \in TransactionStatus
     /\ unit.target # unit.old
     /\ unit.target \notin ALLOWED_STATUS_TRANSITIONS[unit.old])
    => /\ unit.res = Err("InvalidTransition", unit.old, unit.target)
       /\ store[RID].status = unit.old

\* C3: over a sequence of deliveries, a delivery whose id had already been
\* applied when it was read (A, then B, then A again) is not applied again.
C3_RedeliveryAppliedOnce ==
    [][\A w \in WebhookProcs :
          Stores(w) => ~(procs[w].inp.did \in applied /\ ~procs[w].fresh)]_vars

\* C4: of two deliveries with the same id that both read the row before
\* either committed, only one is applied.
C4_ConcurrentSameIdAppliedOnce ==
    [][\A w \in WebhookProcs :
          Stores(w) => ~(procs[w].inp.did \in applied /\ procs[w].fresh)]_vars

\* C5: when the delivery acknowledged last (same id, same body) is ingested
\* again, the answer to the second ingestion is 200 and the table is then
\* exactly as the first ingestion left it.
C5_SecondIngestionChangesNothing ==
    [][(lastIngest'.count = 2 /\ \E w \in WebhookProcs : Answers(w))
       => (store' = lastIngest.after /\ reply'.code = 200)]_vars

\* C5 witness: a delivery that was applied is delivered again after the
\* clock has moved, and is acknowledged as a duplicate.
C5_Witness ==
    /\ lastIngest.count = 2
    /\ reply.by \in WebhookProcs
    /\ reply.msg = "Duplicate delivery ignored"
    /\ HasRow(store)
    /\ store[RID].webhook_received_at # Some(now)

\* C6: when the vendor call of a purchase intake ends in a transient
\* failure (timeout, transport error, malformed response), the transaction
\* is left stored as PROCESSING.
C6_TransientFailureLeavesProcessing ==
    [][(IntakeAnswers /\ reply'.vendor.kind \in Transient)
       => (HasRow(store') /\ store'[RID].status = PROCESSING)]_vars

\* C7: the vendor's purchase operation is called only for a transaction
\* whose stored status is PROCESSING.
C7_VendorCalledOnlyWhenProcessing ==
    [][(IntakeAnswers /\ reply'.vendor.kind # "none")
       => reply'.vendor.at = PROCESSING]_vars

\* C8: when the vendor's immediate response reports success, intake ends
\* with the transaction stored as PROCESSING and answers 200; and no intake
\* step makes the stored status SUCCESS.
C8_VendorSuccessEndsProcessing ==
    [][/\ (IntakeAnswers /\ reply'.vendor.kind = "ok")
          => (HasRow(store') /\ store'[RID].status = PROCESSING /\ reply'.code = 200)
       /\ (IntakeAnswers /\ HasRow(store') /\ store'[RID].status = SUCCESS)
          => (HasRow(store) /\ store[RID].status = SUCCESS)]_vars

\* C9: a refund request for a transaction that is FAILED, or PROCESSING
\* and older than the stuck timeout, ends with the stored status REFUNDED
\* and a refund reference in the stored provider response.
C9_EligibleRefundEndsRefunded ==
    [][(/\ \E f \in RefundProcs : Answers(f)
        /\ HasRow(store)
        /\ \/ store[RID].status = FAILED
           \/ /\ store[RID].status = PROCESSING
              /\ now - store[RID].updated_at > REQUERY_TIMEOUT_MINUTES)
       => /\ store'[RID].status = REFUNDED
          /\ store'[RID].provider_response # NULL
          /\ store'[RID].provider_response[1].refund # NULL]_vars

\* C10: a refund request for a transaction that is INITIATED, SUCCESS or
\* REFUNDED, or PROCESSING and unchanged for no longer than the stuck
\* timeout, is answered 400 "not allowed" and changes no field of the row.
C10_IneligibleRefundChangesNothing ==
    [][(/\ \E f \in RefundProcs : Answers(f)
        /\ HasRow(store)
        /\ \/ store[RID].status \in {INITIATED, SUCCESS, REFUNDED}
           \/ /\ store[RID].status = PROCESSING
              /\ now - store[RID].updated_at <= REQUERY_TIMEOUT_MINUTES)
       => /\ reply'.code = 400
          /\ reply'.msg = "Refund not allowed for current status"
          /\ store' = store]_vars

\* C11: a refund request for a PROCESSING transaction last updated at T
\* passes the eligibility check exactly when the time is T + 10 minutes or
\* later.
C11_EligibleFromTimeoutOn ==
    [][(/\ \E f \in RefundProcs : Answers(f)
        /\ HasRow(store)
        /\ store[RID].status = PROCESSING)
       => ((now >= store[RID].updated_at + 10)
           <=> (reply'.msg # "Refund not allowed for current status"))]_vars

\* a valid create attempt answers in this step, and the table held its
\* request id when the attempt was taken
AnswersExistingId ==
    /\ IntakeAnswers
    /\ reply'.code # 400
    /\ \/ requests' = requests + 1 /\ HasRow(store)
       \/ \E p \in IntakeProcs : Answers(p) /\ InFlight(p) /\ ~procs[p].fresh

\* C12: the table never holds more than one row with the request id, and
\* a create attempt whose request id is already stored is answered 409 and
\* adds no row.
C12_OneRowPerRequestId ==
    [][/\ inserted' <= 1
       /\ AnswersExistingId
          => (reply'.code = 409 /\ store' = store /\ inserted' = inserted)]_vars

\* C12 witness: a create attempt found its request id stored and has been
\* answered 409.
C12_Witness ==
    /\ reply.by \in IntakeProcs
    /\ reply.code = 409
    /\ inserted = 1
    /\ HasRow(store)

\* C13: a create attempt that passed the existence check and finds, at its
\* INSERT, the row another attempt has stored meanwhile, is answered 409,
\* and one row is stored.
C13_ConcurrentCreateLoserGetsDuplicate ==
    [][(\E p \in IntakeProcs :
           /\ Answers(p)
           /\ procs[p].pc \in {"a_insert", "d_insert"}
           /\ procs[p].fresh
           /\ HasRow(store))
       => (reply'.code = 409 /\ inserted' = 1)]_vars


\* A verified delivery taken from the queue in this step while the row is
\* in a terminal status, or a delivery in flight that found it so.
TerminalAtArrival(w) ==
    \/ /\ requests' = requests + 1
       /\ procs[w].pc = "idle"
       /\ lastIngest'.form = "ok"
       /\ HasRow(store)
       /\ store[RID].status \in {SUCCESS, FAILED}
    \/ /\ InFlight(w)
       /\ procs[w].at \in {SUCCESS, FAILED}

\* C14: a webhook delivery for a transaction whose status is already SUCCESS
\* or FAILED is acknowledged with 200 and changes nothing on the row: no step
\* of its handler changes the stored row, and its answer is a 200.
C14_TerminalWebhookChangesNothing ==
    [][\A w \in WebhookProcs :
          /\ (Answers(w) /\ TerminalAtArrival(w))
                => (reply'.code = 200 /\ store' = store)
          /\ (InFlight(w) /\ procs[w].at \in {SUCCESS, FAILED}
                /\ procs'[w] # procs[w])
                => store' = store]_vars

\* A late "completed-api" for a FAILED row was acknowledged and ignored.
C14_Witness ==
    /\ reply.by \in WebhookProcs
    /\ reply.code = 200
    /\ reply.msg = "Already terminal; ignored"
    /\ lastIngest.vs = Some("completed-api")
    /\ HasRow(store)
    /\ store[RID].status = FAILED

\* C15: a verified webhook with a new delivery id for a PROCESSING
\* transaction moves it to SUCCESS when the vendor status is "completed-api"
\* and to FAILED when it is "unprocessable" or "422", and is answered 200.
C15_WebhookEndsProcessing ==
    [][\A w \in WebhookProcs :
          (/\ Answers(w)
           /\ InFlight(w)
           /\ procs[w].at = PROCESSING
           /\ procs[w].inp.vs \in {Some("completed-api"), Some("unprocessable"),
                                   Some("422")})
          => /\ reply'.code = 200
             /\ store'[RID].status =
                  IF procs[w].inp.vs = Some("completed-api") THEN SUCCESS
                  ELSE FAILED]_vars

\* A "422" delivery was processed and the row it found PROCESSING is FAILED.
C15_Witness ==
    /\ reply.by \in WebhookProcs
    /\ reply.msg = "Webhook processed"
    /\ reply.tried.ok
    /\ lastIngest.vs = Some("422")
    /\ store[RID].status = FAILED
    /\ store[RID].iacafe_status = Some("422")

\* The status a delivery in flight normalizes to is one the webhook assigns
\* and the table has no edge to it from the status the delivery found.
IllegalTarget(w) ==
    /\ Truthy(procs[w].inp.vs)
    /\ LET target == normalize_status(procs[w].inp.vs[1])
       IN  /\ target \in {SUCCESS, REFUNDED, FAILED}
           /\ target # procs[w].at
           /\ target \notin ALLOWED_STATUS_TRANSITIONS[procs[w].at]

\* C16: when the status a webhook normalizes to is not a legal transition
\* from the transaction's current status, the webhook is still answered 200
\* and the stored status keeps its prior value.
C16_IllegalWebhookKeepsStatus ==
    [][\A w \in WebhookProcs :
          (Answers(w) /\ InFlight(w) /\ IllegalTarget(w))
          => /\ reply'.code = 200
             /\ store'[RID].status = procs[w].at]_vars

\* REFUNDED was reported for a PROCESSING row, refused, and answered 200.
C16_Witness ==
    /\ reply.by \in WebhookProcs
    /\ reply.code = 200
    /\ reply.tried.err = "InvalidTransition"
    /\ reply.tried.old = PROCESSING
    /\ reply.tried.new = REFUNDED
    /\ store[RID].status = PROCESSING

\* C17: after every delivery that passes header validation, signature
\* verification, lookup, deduplication and the terminal guard, the stored
\* delivery id is the inbound one and the stored payload and receipt time
\* are those of this delivery, whatever became of the status transition.
C17_EvidenceStored ==
    [][\A w \in WebhookProcs :
          (Answers(w) /\ InFlight(w))
          => /\ store'[RID].webhook_delivery_id = Some(procs[w].inp.did)
             /\ store'[RID].webhook_payload =
                  Some([status |-> procs[w].inp.vs, reference |-> procs[w].inp.ref])
             /\ store'[RID].webhook_received_at = Some(now)]_vars

\* A delivery whose transition was refused left its evidence on the row.
C17_Witness ==
    /\ reply.by \in WebhookProcs
    /\ reply.msg = "Webhook processed"
    /\ ~reply.tried.ok
    /\ reply.tried.err = "InvalidTransition"
    /\ store[RID].webhook_delivery_id = Some(lastIngest.did)


\* the vendor statuses the normalization table names as final
FinalFamily == {"completed-api", "refunded", "unprocessable", "422"}

\* C18: normalize_status maps "processing-api" and every unlisted string to
\* PROCESSING, "completed-api" to SUCCESS, "refunded" to REFUNDED,
\* "unprocessable" and "422" to FAILED, and every value it returns is a
\* member of the TransactionStatus value set.  Stated for the status of
\* every purchase response the intake has normalized.
C18_NormalizeIntoStatusSet ==
    (reply.by \in IntakeProcs /\ reply.vendor.kind = "ok")
    => LET s == Get(reply.vendor.status, Some(""))[1]
           n == normalize_status(s)
       IN  /\ n \in TransactionStatus
           /\ n = CASE s = "completed-api" -> SUCCESS
                    [] s = "refunded" -> REFUNDED
                    [] s \in {"unprocessable", "422"} -> FAILED
                    [] OTHER -> PROCESSING

\* C19: a vendor status that is unrecognized or in the processing family
\* never changes the stored status to SUCCESS, FAILED or REFUNDED and never
\* makes the receiving operation treat the purchase as failed: the intake
\* answers 200 and leaves the row non-terminal, a webhook and a requery
\* leave the status as it is and answer 200.
C19_UnknownStatusNeverFails ==
    [][/\ (/\ IntakeAnswers
           /\ reply'.vendor.kind = "ok"
           /\ reply'.vendor.status # NULL
           /\ reply'.vendor.status[1] \notin FinalFamily)
          => /\ reply'.code = 200
             /\ HasRow(store')
             /\ store'[RID].status \notin {SUCCESS, FAILED, REFUNDED}
       /\ \A w \in WebhookProcs \cup RequeryProcs :
            (/\ procs[w].pc \in {"w_apply", "w_store", "q_apply"}
             /\ procs'[w] # procs[w]
             /\ procs[w].inp.vs # NULL
             /\ procs[w].inp.vs[1] \notin FinalFamily)
            => /\ store'[RID].status = store[RID].status
               /\ Answers(w) => reply'.code = 200]_vars


\* C20: the gateway reports a transient failure of the call (connect
\* timeout, transport or certificate failure, malformed response) with a
\* result the caller can tell apart from a failure the vendor reported (HTTP
\* error response, success flag false): no result of the one kind is a
\* result of the other.  Stated for the failure of every vendor call the
\* intake has answered.
C20_TransientToldApart ==
    (reply.by \in IntakeProcs /\ reply.vendor.kind \in Transient)
    => make_request(reply.vendor.kind)
         \cap (make_request("http_error") \cup make_request("rejected")) = {}


\* C21: a vendor call that ends in a transient failure is not retried within
\* the same operation: for one invocation the gateway sends the request to
\* the vendor at most once.  Stated for the failed vendor call of every
\* purchase the intake has answered.
C21_TransientNotRetried ==
    (reply.by \in IntakeProcs /\ reply.vendor.kind \in Transient)
    => \A n \in requests_sent(reply.vendor.kind) : n <= 1


\* worker q takes a requery from the queue in this step
TakesRequery(q) ==
    /\ requests' = requests + 1
    /\ procs[q].pc = "idle"
    /\ Answers(q) \/ procs'[q].pc # "idle"

\* C22: requery of a transaction whose status is SUCCESS, FAILED or REFUNDED
\* makes no vendor call, changes no field of the row and answers 200 with
\* the current state: the request is answered in the step that takes it,
\* the handler never reaches the vendor call, and the store is unchanged.
C22_TerminalRequeryChangesNothing ==
    [][\A q \in RequeryProcs :
          (/\ TakesRequery(q)
           /\ HasRow(store)
           /\ store[RID].status \in {SUCCESS, FAILED, REFUNDED})
          => /\ Answers(q)
             /\ reply'.code = 200
             /\ reply'.msg = "terminal"
             /\ procs'[q].pc = "idle"
             /\ store' = store]_vars

\* A requery of a REFUNDED row was answered with its state.
C22_Witness ==
    /\ reply.by \in RequeryProcs
    /\ reply.code = 200
    /\ reply.msg = "terminal"
    /\ HasRow(store)
    /\ store[RID].status = REFUNDED


\* C23: requery of a PROCESSING transaction stores the vendor's raw response
\* and moves the row to SUCCESS when the vendor status normalizes to SUCCESS
\* and to FAILED when it normalizes to FAILED; when the normalized status is
\* no legal transition from the stored status (a terminal status reported
\* for an INITIATED row) the status is left as it is; the answer is 200.
C23_RequeryAppliesVendorStatus ==
    [][\A q \in RequeryProcs :
          (procs[q].pc = "q_apply" /\ Answers(q))
          => LET n == normalize_status(Get(procs[q].inp.vs, Some(""))[1])
                 old == store[RID].status
             IN  /\ reply'.code = 200
                 /\ store'[RID].provider_response = Body("requery", procs[q].inp.vs)
                 /\ store'[RID].status =
                      IF n \in {SUCCESS, FAILED} /\ n \in ALLOWED_STATUS_TRANSITIONS[old]
                      THEN n ELSE old]_vars


Reconcilers == WebhookProcs \cup RequeryProcs

\* the vendor status worker p acts on in this step: the one its request
\* carries, for a requery at its vendor call the one the call returns
ActsOn(p) ==
    IF procs[p].pc = "q_vendor" THEN procs'[p].inp.vs ELSE procs[p].inp.vs

\* No other vendor status than v is on record: not with a request in
\* flight, not as the stored vendor status, not in the stored webhook
\* payload, not in the stored requery response.  With two webhook workers
\* every status that led to a change of the row is in one of these places.
SameStatus(v) ==
    /\ \A p \in Reconcilers :
          (InFlight(p) /\ procs[p].inp.vs # NULL) => procs[p].inp.vs = v
    /\ store[RID].iacafe_status \in {NULL, v}
    /\ store[RID].webhook_payload # NULL
          => store[RID].webhook_payload[1].status \in {NULL, v}
    /\ store[RID].provider_response # NULL
          => store[RID].provider_response[1].status \in {NULL, v}

\* C24: requery may run any number of times for a transaction, also while
\* a webhook for it is being ingested: with the vendor reporting the same
\* status each time, the only change of the stored status is the one the
\* webhook alone makes (an edge of the table, to the status the vendor
\* status normalizes to, from a status the terminal guard lets through), and
\* no step of a requery changes the stored status.
C24_RequeryConcurrentSafe ==
    [][\A p \in Reconcilers :
          (/\ procs'[p] # procs[p]
           /\ store'[RID].status # store[RID].status
           /\ ActsOn(p) # NULL
           /\ SameStatus(ActsOn(p)))
          => /\ p \in WebhookProcs
             /\ store[RID].status \notin {SUCCESS, FAILED}
             /\ store'[RID].status \in ALLOWED_STATUS_TRANSITIONS[store[RID].status]
             /\ store'[RID].status = normalize_status(ActsOn(p)[1])]_vars

\* A webhook moved the row to SUCCESS while a requery that had stored the
\* same vendor status was still to apply it.
C24_Witness ==
    /\ reply.by \in WebhookProcs
    /\ reply.tried.ok
    /\ procs["q"].pc = "q_apply"
    /\ procs["q"].inp.vs = Some("completed-api")
    /\ store[RID].status = SUCCESS
    /\ store[RID].provider_response # NULL


\* C25: with every delivery ingested, requery invoked again and again and
\* the vendor reporting a final status, every transaction the intake
\* created reaches SUCCESS, FAILED or REFUNDED: none stays INITIATED or
\* PROCESSING for ever.
C25_EveryTransactionSettles ==
    HasRow(store) ~> (HasRow(store) /\ store[RID].status \in {SUCCESS, FAILED, REFUNDED})


\* worker w takes a webhook request from the queue in this step
TakesWebhook(w) ==
    /\ requests' = requests + 1
    /\ procs[w].pc = "idle"
    /\ Answers(w) \/ procs'[w].pc # "idle"

\* the request worker w has taken in this step
ReqOf(w) == IF Answers(w) THEN reply'.req ELSE procs'[w].req

AllHeaders(req) ==
    /\ req.signature # NULL /\ req.timestamp # NULL
    /\ req.event # NULL /\ req.delivery # NULL

\* the signature is not the HMAC of timestamp and body under the secret
Mismatch(req) ==
    req.signature # Signed(IACAFE_WEBHOOK_SECRET, req.timestamp[1], req.body)

\* C26: with the shared secret configured, a webhook whose signature is not
\* HMAC-SHA256(secret, timestamp + "." + raw body) is answered 401 in the
\* step that takes it and no stored transaction changes; no request with
\* such a signature is ever carried further.
C26_BadSignatureRejected ==
    [][\A w \in WebhookProcs :
          /\ (TakesWebhook(w) /\ AllHeaders(ReqOf(w)) /\ Mismatch(ReqOf(w)))
                => (Answers(w) /\ reply'.code = 401 /\ store' = store)
          /\ (InFlight(w) /\ AllHeaders(procs[w].req) /\ Mismatch(procs[w].req)
                /\ procs'[w] # procs[w])
                => store' = store]_vars

\* A request signed over another timestamp was refused while the table
\* held the transaction.
C26_Witness ==
    /\ reply.by \in WebhookProcs
    /\ reply.code = 401
    /\ reply.req.signature = Signed(IACAFE_WEBHOOK_SECRET, "t0", reply.req.body)
    /\ reply.req.timestamp = Some("t1")
    /\ HasRow(store)

\* C27: a webhook request without one of the four headers is answered 400,
\* whatever its signature and its body, and no stored transaction changes.
C27_MissingHeaderRejected ==
    [][\A w \in WebhookProcs :
          /\ (TakesWebhook(w) /\ ~AllHeaders(ReqOf(w)))
                => (Answers(w) /\ reply'.code = 400 /\ store' = store)
          /\ (InFlight(w) /\ ~AllHeaders(procs[w].req) /\ procs'[w] # procs[w])
                => store' = store]_vars

\* A request without the delivery id header and with a forged signature was
\* answered 400, not 401.
C27_Witness ==
    /\ reply.by \in WebhookProcs
    /\ reply.code = 400
    /\ reply.req.delivery = NULL
    /\ reply.req.signature = Signed("k2", "t1", reply.req.body)
    /\ HasRow(store)

\* a request with all headers, a good signature and a payload that is a
\* document
WellFormed(req) ==
    /\ AllHeaders(req) /\ ~Mismatch(req) /\ get_json(req.body) \in Payloads

\* C28: a well-formed, verified webhook whose event type is not supported,
\* or whose request_id names no stored transaction, is answered 200,
\* creates no transaction and changes none.
C28_UnsupportedOrUnknownIgnored ==
    [][\A w \in WebhookProcs :
          (/\ TakesWebhook(w)
           /\ WellFormed(ReqOf(w))
           /\ \/ get_json(ReqOf(w).body)[1].event \notin supported_events
              \/ /\ get_json(ReqOf(w).body)[1].request_id # NULL
                 /\ get_json(ReqOf(w).body)[1].request_id[1] \notin DOMAIN store)
          => /\ Answers(w)
             /\ reply'.code = 200
             /\ store' = store
             /\ inserted' = inserted]_vars

\* An event that is not supported was acknowledged for a stored transaction.
C28_Witness ==
    /\ reply.by \in WebhookProcs
    /\ reply.code = 200
    /\ get_json(reply.req.body) \in Payloads
    /\ get_json(reply.req.body)[1].event = "transaction.deleted"
    /\ get_json(reply.req.body)[1].request_id = Some(RID)
    /\ ~Mismatch(reply.req)
    /\ HasRow(store)


\* C29: when the vendor's immediate response to a purchase reports failure
\* (success flag false), the intake finishes with the transaction stored as
\* FAILED and answers with the failure response that carries the
\* transaction (400).
C29_VendorFailureEndsFailed ==
    [][(IntakeAnswers /\ reply'.vendor.kind = "rejected")
       => /\ HasRow(store')
          /\ store'[RID].status = FAILED
          /\ reply'.code = 400]_vars


\* the request is a verified delivery of vendor status "refunded" for the
\* stored transaction, which is in a status from which REFUNDED is legal and
\* has not seen this delivery before
RefundDelivery(req) ==
    /\ WellFormed(req)
    /\ get_json(req.body)[1].event \in supported_events
    /\ get_json(req.body)[1].request_id = Some(RID)
    /\ get_json(req.body)[1].status = Some("refunded")
    /\ HasRow(store)
    /\ REFUNDED \in ALLOWED_STATUS_TRANSITIONS[store[RID].status]
    /\ store[RID].webhook_delivery_id # req.delivery

\* C30: webhook ingestion changes a transaction's status to REFUNDED: a
\* verified delivery with vendor status "refunded" for a transaction in a
\* status from which REFUNDED is legal is not answered with the stored
\* status left other than REFUNDED.
C30_WebhookReachesRefunded ==
    [][\A w \in WebhookProcs :
          (TakesWebhook(w) /\ RefundDelivery(ReqOf(w)) /\ Answers(w))
          => store'[RID].status = REFUNDED]_vars


\* the step is one in which intake worker p answers a request whose row it
\* has created: in this very step (airtime) or in an earlier one (data)
AnswersAfterCreate(p) ==
    /\ Answers(p)
    /\ \/ procs[p].pc = "a_insert" /\ inserted' = inserted + 1
       \/ procs[p].pc = "d_vendor"

\* C31: every purchase-intake response issued after the transaction row was
\* created, on success and on every failure path of airtime and data
\* intake, carries a snapshot of that transaction.
C31_ResponseCarriesSnapshot ==
    [][\A p \in IntakeProcs :
          AnswersAfterCreate(p)
          => reply'.msg \in airtime_snapshot_messages \cup data_snapshot_messages]_vars


\* C32: purchase intake answers 500 only when it failed before any vendor
\* call was attempted: whenever an intake request ends with 500, the vendor
\* purchase operation was not invoked for that request.
C32_ServerErrorOnlyBeforeVendorCall ==
    [][(IntakeAnswers /\ reply'.code = 500) => reply'.vendor.kind = "none"]_vars


\* C33: setting a transaction's status to the value it already has, for
\* each of the five statuses, succeeds without error and leaves the status
\* unchanged.
C33_ReassertIsNoOp ==
    (unit.pc = "called" /\ unit.target = unit.old)
    => /\ unit.res = Ok
       /\ store[RID].status = unit.old


\* C34: a status can be assigned from nothing only to INITIATED (a first
\* assignment of any other status is rejected), so every newly stored
\* transaction has status INITIATED; and a status assignment to a
\* transaction that already has a stored status is checked against the
\* transition table, never treated as an initial assignment.
C34_InitialAssignmentOnlyOnCreation ==
    [][/\ \A s \in TransactionStatus \ {INITIATED} :
             ~validate_status_transition(NO_VALUE, s).ok
       /\ inserted' = inserted + 1
             => HasRow(store') /\ store'[RID].status = INITIATED
       /\ \A p \in Procs :
             (Answers(p) /\ HasRow(store'))
             => reply'.tried.err # "InitialMustBeInitiated"]_vars


\* the stored transaction is INITIATED and holds the ingested delivery of a
\* terminal vendor status ("completed-api"), delivery id included
DeliveredWhileInitiated ==
    /\ HasRow(store)
    /\ store[RID].status = INITIATED
    /\ store[RID].webhook_delivery_id # NULL
    /\ store[RID].webhook_payload # NULL
    /\ store[RID].webhook_payload[1].status = Some("completed-api")

\* the last response acknowledges a redelivery of that webhook: same
\* delivery id, same status
Redelivered ==
    /\ reply.by \in WebhookProcs
    /\ HasRow(store)
    /\ reply.req.delivery # NULL
    /\ reply.req.delivery = store[RID].webhook_delivery_id
    /\ get_json(reply.req.body) \in Payloads
    /\ get_json(reply.req.body)[1].status = Some("completed-api")

\* C35: a terminal vendor status delivered by webhook while the transaction
\* is still INITIATED is not lost: with that webhook redelivered under the
\* same delivery id again and again, the transaction comes to the reported
\* status.
C35_EarlyWebhookNotLost ==
    ([]<>Redelivered) => (DeliveredWhileInitiated ~> (HasRow(store) /\ store[RID].status = SUCCESS))


\* the step is one of a requery or of a webhook ingestion that writes the
\* row and leaves it PROCESSING
WritesProcessing(p) ==
    /\ procs[p].pc # "idle"
    /\ procs'[p].pc # procs[p].pc
    /\ HasRow(store) /\ store[RID].status = PROCESSING
    /\ store'[RID] # store[RID]
    /\ store'[RID].status = PROCESSING

\* C36: the age refund compares with the stuck timeout is measured from the
\* row's most recent mutation of any field: a requery that stores a
\* provider response, or a webhook with a processing-family status, that
\* writes the row while it stays PROCESSING sets updated_at to the time of
\* the write, and a refund of a PROCESSING row is answered 400 and changes
\* nothing until more than the timeout has passed since updated_at.
C36_RefundAgeFromLastMutation ==
    [][/\ \A p \in Reconcilers :
             WritesProcessing(p) => store'[RID].updated_at = now
       /\ \A f \in RefundProcs :
             (/\ Answers(f)
              /\ HasRow(store)
              /\ store[RID].status = PROCESSING
              /\ ~(now - store[RID].updated_at > REQUERY_TIMEOUT_MINUTES))
             => (reply'.code = 400 /\ store' = store)]_vars

\* C37: when the guard rejects the REFUNDED transition inside refund, the
\* refund reports failure (500 "Refund failed") and leaves the transaction
\* exactly as it was: status and provider response unchanged, no refund
\* reference stored.
C37_RejectedRefundChangesNothing ==
    [][\A f \in RefundProcs :
          (Answers(f) /\ reply'.tried # NoTry /\ ~reply'.tried.ok)
          => /\ reply'.code = 500
             /\ reply'.msg = "Refund failed"
             /\ store' = store]_vars

\* C37 witness: a refund of a FAILED transaction has been answered 500
\* after the guard refused FAILED -> REFUNDED.
C37_Witness ==
    /\ reply.by \in RefundProcs
    /\ reply.code = 500
    /\ reply.tried = Err("InvalidTransition", FAILED, REFUNDED)
    /\ HasRow(store)
    /\ store[RID].status = FAILED
    /\ store[RID].provider_response = NULL


\* a verified delivery of a final vendor status, under a delivery id the
\* row does not hold, would be applied to the row rowv at time t
WebhookCanFinalize(rowv, t) ==
    \E d \in DeliveryIds : \E v \in {"completed-api", "unprocessable"} :
        /\ webhook_guard(OneRow(rowv), d) = ""
        /\ LET c == change_transaction_status(
                        SetAttr(Loaded(rowv), "iacafe_status", Some(v)),
                        rowv, normalize_status(v), t)
           IN  c.res.ok /\ c.row.status = normalize_status(v)

\* C38: when the vendor requery call raises, requery answers 502 "Provider
\* requery failed" and leaves every field of the transaction unchanged; the
\* transaction stays non-terminal, and a PROCESSING transaction can still
\* be finalized by a later webhook.
C38_FailedRequeryChangesNothing ==
    [][\A q \in RequeryProcs :
          (procs[q].pc = "q_vendor" /\ Answers(q))
          => /\ reply'.code = 502
             /\ reply'.msg = "Provider requery failed"
             /\ store' = store
             /\ store'[RID].status \in {INITIATED, PROCESSING}
             /\ store'[RID].status = PROCESSING
                   => WebhookCanFinalize(store'[RID], now)]_vars

\* C38 witness: a requery of a PROCESSING transaction has been answered 502
\* and the transaction can still be finalized by a webhook.
C38_Witness ==
    /\ reply.by \in RequeryProcs
    /\ reply.code = 502
    /\ HasRow(store)
    /\ store[RID].status = PROCESSING
    /\ WebhookCanFinalize(store[RID], now)

====
